---------------------------- MODULE Spec2Model ----------------------------
(***************************************************************************)
(* Model of TestONNXQuick.py: main() walks a fixed list of five model      *)
(* files and calls check_onnx_model() on each; check_onnx_model() runs the *)
(* stages exists -> getsize -> onnx.load -> onnx.checker.check_model ->    *)
(* graph introspection -> ort.InferenceSession -> get_inputs ->            *)
(* get_outputs -> compatibility verdict inside two nested try blocks.      *)
(*                                                                         *)
(* The environment (file system, onnx, onnxruntime) is nondeterministic:   *)
(* every library call inside a try block either returns or raises, and the *)
(* session's first input is any (name, shape) within the bounds.  The file *)
(* system is taken to be stable during one call of check_onnx_model: after *)
(* os.path.exists returned True, os.path.getsize of the same path returns. *)
(***************************************************************************)
EXTENDS Integers, Sequences, FiniteSets, TLC

(* ------------------------------ bounds -------------------------------- *)

\* longest input shape the environment hands out (YOLO inputs have rank 4)
MaxRank == 4

(* ------------------------- program constants -------------------------- *)

\* model_files, lines 83-89 (the fourth name is misspelt in the source)
model_files ==
    << "yolov8s.onnx", "yolov8s-pose.onnx", "yolov8s-seg.onnx",
       "olov8s-cls.onnx", "yolov8s-obb.onnx" >>

\* the rank the compatibility check asks for, line 59
RequiredRank == 4

\* the input name the compatibility check asks for, line 58
RequiredName == "images"

(* ------------------------ environment's values ------------------------ *)

\* One dimension of NodeArg.shape: an int, or a non-numeric entry (a str
\* for a symbolic dimension, None for an unknown one).
IntDim(n) == [kind |-> "int", val |-> n]
DynamicDim == [kind |-> "dynamic", val |-> 0]
Dims == {IntDim(n) : n \in {-1, 0, 640}} \cup {DynamicDim}

RECURSIVE SeqsUpTo(_, _)
SeqsUpTo(S, n) ==
    IF n = 0 THEN {<< >>}
    ELSE LET shorter == SeqsUpTo(S, n - 1)
         IN  shorter \cup {Append(s, d) : s \in {t \in shorter : Len(t) = n - 1}, d \in S}

Shapes == SeqsUpTo(Dims, MaxRank)
InputNames == {"images", "input"}
NodeArgs == [name : InputNames, shape : Shapes]

(* ------------------------------- state -------------------------------- *)

VARIABLES
    pc,                \* position of the program
    models_dir_exists, \* environment: os.path.exists(models_dir), line 79
    bound,             \* local names main has bound so far
    valid_models,      \* main's counter, lines 91, 99
    total_models,      \* main's counter, lines 92, 96
    idx,               \* position of the for loop in model_files, line 94
    out,               \* lines printed by main
    called,            \* model files check_onnx_model was called with
    returned,          \* values check_onnx_model returned, in call order
    calls,             \* stages run by the running call, with their outcome
    section,           \* lines printed by the running call
    input_info,        \* << >> or << session.get_inputs()[0] >>, line 50
    retval             \* value the running call is returning

vars == << pc, models_dir_exists, bound, valid_models, total_models, idx, out,
           called, returned, calls, section, input_info, retval >>

mainVars == << models_dir_exists, bound, valid_models, total_models, idx, out,
               called, returned >>

Line(msg, args) == [msg |-> msg, args |-> args]
Call(stage, ok) == [stage |-> stage, ok |-> ok]

Init ==
    /\ pc = "main_start"
    /\ models_dir_exists \in BOOLEAN
    /\ bound = {}
    /\ valid_models = 0
    /\ total_models = 0
    /\ idx = 0
    /\ out = << >>
    /\ called = << >>
    /\ returned = << >>
    /\ calls = << >>
    /\ section = << >>
    /\ input_info = << >>
    /\ retval = FALSE

(* --------------------------- pure functions --------------------------- *)

\* all(dim > 0 for dim in shape), line 60: the generator is consumed left to
\* right and stops at the first dim that is not > 0; comparing a str or None
\* with 0 raises TypeError.
RECURSIVE all_positive(_)
all_positive(shape) ==
    IF shape = << >> THEN "True"
    ELSE IF Head(shape).kind # "int" THEN "TypeError"
    ELSE IF Head(shape).val > 0 THEN all_positive(Tail(shape))
    ELSE "False"

\* is_compatible, lines 58-60: `and` evaluates its right operand only when
\* the left one is true.
is_compatible(info) ==
    IF info.name # RequiredName THEN "False"
    ELSE IF Len(info.shape) # RequiredRank THEN "False"
    ELSE all_positive(info.shape)

\* The except clause that catches an exception raised at a stage: the inner
\* try spans lines 48-63, the outer one lines 24-67; lines 14-22 are in no
\* try block.
InnerTry == {"InferenceSession", "get_inputs", "get_outputs", "is_compatible"}
OuterTry == {"load", "check_model", "introspect"}

Handler_SessionUnguarded(stage) ==
    IF stage \in OuterTry THEN "outer" ELSE "none"

Handler(stage) ==
    IF stage \in InnerTry THEN "inner"
    ELSE IF stage \in OuterTry THEN "outer"
    ELSE "none"

(* -------------------------- check_onnx_model -------------------------- *)

\* `return v` after printing `lines`
Return(v, lines) ==
    /\ section' = section \o lines
    /\ retval' = v
    /\ pc' = "check_return"

\* an exception leaves `stage`: the matching except clause prints its
\* message and returns False (lines 65-67, 69-71); with no clause around it
\* the exception leaves check_onnx_model and main, which has no try.
Raise(stage) ==
    LET h == Handler(stage)
    IN  IF h = "inner" THEN Return(FALSE, << Line("rt_error", << >>) >>)
        ELSE IF h = "outer" THEN Return(FALSE, << Line("verify_failed", << >>) >>)
        ELSE /\ pc' = "crashed"
             /\ UNCHANGED << section, retval >>

\* lines 16-18: the file is missing
CheckMissing_FallsThrough ==
    /\ pc = "check_exists"
    /\ calls' = Append(calls, Call("exists", FALSE))
    /\ section' = Append(section, Line("missing", << >>))
    /\ pc' = "check_load"
    /\ UNCHANGED << mainVars, input_info, retval >>

CheckMissing ==
    /\ pc = "check_exists"
    /\ calls' = Append(calls, Call("exists", FALSE))
    /\ Return(FALSE, << Line("missing", << >>) >>)
    /\ UNCHANGED << mainVars, input_info >>

\* lines 16, 21-22, 26: the file exists; its size is printed and the try
\* block is entered
CheckFound ==
    /\ pc = "check_exists"
    /\ calls' = calls \o << Call("exists", TRUE), Call("getsize", TRUE) >>
    /\ section' = section \o << Line("size", << >>), Line("verifying", << >>) >>
    /\ pc' = "check_load"
    /\ UNCHANGED << mainVars, input_info, retval >>

\* a library call at position `at` that returns (ok) or raises
Stage(at, stage, lines, next) ==
    /\ pc = at
    /\ \E ok \in BOOLEAN :
          /\ calls' = Append(calls, Call(stage, ok))
          /\ IF ok
             THEN /\ section' = section \o lines
                  /\ pc' = next
                  /\ UNCHANGED retval
             ELSE Raise(stage)
    /\ UNCHANGED mainVars

\* line 27
CheckLoad ==
    /\ Stage("check_load", "load", << >>, "check_checker")
    /\ UNCHANGED input_info

\* lines 28-29
CheckChecker ==
    /\ Stage("check_checker", "check_model",
             << Line("structure_ok", << >>) >>, "check_introspect")
    /\ UNCHANGED input_info

\* lines 32-47
CheckIntrospect ==
    /\ Stage("check_introspect", "introspect",
             << Line("producer", << >>), Line("version", << >>),
                Line("inputs", << >>), Line("outputs", << >>),
                Line("session_test", << >>) >>, "check_session")
    /\ UNCHANGED input_info

\* line 49
CheckSession ==
    /\ Stage("check_session", "InferenceSession", << >>, "check_get_inputs")
    /\ UNCHANGED input_info

\* line 50: get_inputs()[0]; an empty list raises IndexError
CheckGetInputs ==
    /\ Stage("check_get_inputs", "get_inputs", << >>, "check_get_outputs")
    /\ IF pc' = "check_get_outputs"
       THEN \E info \in NodeArgs : input_info' = << info >>
       ELSE UNCHANGED input_info

\* lines 51-55
CheckGetOutputs ==
    /\ Stage("check_get_outputs", "get_outputs",
             << Line("session_ok", << >>), Line("input", << >>),
                Line("output", << >>) >>, "check_compat")
    /\ UNCHANGED input_info

\* lines 58-63
CheckCompat ==
    /\ pc = "check_compat"
    /\ LET c == is_compatible(input_info[1])
       IN  /\ calls' = Append(calls, Call("is_compatible", c # "TypeError"))
           /\ IF c = "True" THEN Return(TRUE, << Line("compatible", << >>) >>)
              ELSE IF c = "False" THEN Return(TRUE, << Line("incompatible", << >>) >>)
              ELSE Raise("is_compatible")
    /\ UNCHANGED << mainVars, input_info >>

(* -------------------------------- main -------------------------------- *)

\* lines 75-81: the directory is missing
MainDirMissing_NoReturn ==
    /\ pc = "main_start"
    /\ ~models_dir_exists
    /\ out' = << Line("banner", << >>), Line("dir_missing", << >>) >>
    /\ bound' = {"valid_models", "total_models"}
    /\ idx' = 1
    /\ pc' = "main_loop"
    /\ UNCHANGED << models_dir_exists, valid_models, total_models, called,
                    returned, calls, section, input_info, retval >>

MainDirMissing ==
    /\ pc = "main_start"
    /\ ~models_dir_exists
    /\ out' = << Line("banner", << >>), Line("dir_missing", << >>) >>
    /\ pc' = "done"
    /\ UNCHANGED << models_dir_exists, bound, valid_models, total_models, idx,
                    called, returned, calls, section, input_info, retval >>

\* lines 75-92: the directory exists; the counters are created
MainDirFound ==
    /\ pc = "main_start"
    /\ models_dir_exists
    /\ out' = << Line("banner", << >>) >>
    /\ bound' = {"valid_models", "total_models"}
    /\ valid_models' = 0
    /\ total_models' = 0
    /\ idx' = 1
    /\ pc' = "main_loop"
    /\ UNCHANGED << models_dir_exists, called, returned, calls, section,
                    input_info, retval >>

\* lines 94-98 and 14: the next model file is taken and check_onnx_model is
\* called with it
MainCall ==
    /\ pc = "main_loop"
    /\ idx <= Len(model_files)
    /\ total_models' = total_models + 1
    /\ called' = Append(called, model_files[idx])
    /\ calls' = << >>
    /\ section' = << Line("header", << >>) >>
    /\ input_info' = << >>
    /\ pc' = "check_exists"
    /\ UNCHANGED << models_dir_exists, bound, valid_models, idx, out, returned,
                    retval >>

\* lines 98-99, 94: the call returns, the counter is updated and the loop
\* moves on
CheckReturn_BreakOnFalse ==
    /\ pc = "check_return"
    /\ returned' = Append(returned, retval)
    /\ valid_models' = IF retval THEN valid_models + 1 ELSE valid_models
    /\ idx' = IF retval THEN idx + 1 ELSE Len(model_files) + 1
    /\ calls' = << >>
    /\ section' = << >>
    /\ input_info' = << >>
    /\ retval' = FALSE
    /\ pc' = "main_loop"
    /\ UNCHANGED << models_dir_exists, bound, total_models, out, called >>

CheckReturn_RetryOnFalse ==
    /\ pc = "check_return"
    /\ IF retval
       THEN /\ returned' = Append(returned, retval)
            /\ valid_models' = valid_models + 1
            /\ idx' = idx + 1
            /\ pc' = "main_loop"
            /\ section' = << >>
       ELSE /\ pc' = "check_exists"
            /\ section' = << Line("header", << >>) >>
            /\ UNCHANGED << returned, valid_models, idx >>
    /\ calls' = << >>
    /\ input_info' = << >>
    /\ retval' = FALSE
    /\ UNCHANGED << models_dir_exists, bound, total_models, out, called >>

CheckReturn_CountsAll ==
    /\ pc = "check_return"
    /\ returned' = Append(returned, retval)
    /\ valid_models' = valid_models + 1
    /\ idx' = idx + 1
    /\ calls' = << >>
    /\ section' = << >>
    /\ input_info' = << >>
    /\ retval' = FALSE
    /\ pc' = "main_loop"
    /\ UNCHANGED << models_dir_exists, bound, total_models, out, called >>

CheckReturn ==
    /\ pc = "check_return"
    /\ returned' = Append(returned, retval)
    /\ valid_models' = IF retval THEN valid_models + 1 ELSE valid_models
    /\ idx' = idx + 1
    /\ calls' = << >>
    /\ section' = << >>
    /\ input_info' = << >>
    /\ retval' = FALSE
    /\ pc' = "main_loop"
    /\ UNCHANGED << models_dir_exists, bound, total_models, out, called >>

\* lines 101-109: the list is exhausted; the summary and, when a model
\* failed, the warning block are printed
MainSummary ==
    /\ pc = "main_loop"
    /\ idx > Len(model_files)
    /\ out' = out
              \o << Line("result_header", << >>),
                    Line("summary", << total_models, valid_models >>) >>
              \o (IF valid_models < total_models
                  THEN << Line("warning", << >>), Line("hints", << >>) >>
                  ELSE << >>)
    /\ pc' = "done"
    /\ UNCHANGED << models_dir_exists, bound, valid_models, total_models, idx,
                    called, returned, calls, section, input_info, retval >>

Next ==
    \/ MainDirMissing
    \/ MainDirFound
    \/ MainCall
    \/ CheckMissing
    \/ CheckFound
    \/ CheckLoad
    \/ CheckChecker
    \/ CheckIntrospect
    \/ CheckSession
    \/ CheckGetInputs
    \/ CheckGetOutputs
    \/ CheckCompat
    \/ CheckReturn
    \/ MainSummary

Spec == Init /\ [][Next]_vars

\* the interpreter runs the program to its end: a step that can be taken is
\* taken
FairSpec == Spec /\ WF_vars(Next)

(* ------------------------------ properties ---------------------------- *)

Printed(lines, msg) == \E i \in DOMAIN lines : lines[i].msg = msg
Ran(stage, ok) == \E i \in DOMAIN calls : calls[i] = Call(stage, ok)
InCheck == pc \notin {"main_start", "main_loop", "done", "crashed"}
CountTrue(bs) == Cardinality({i \in DOMAIN bs : bs[i]})

\* the stages of check_onnx_model in the order the specification gives them
StageOrder ==
    << "exists", "load", "check_model", "introspect", "InferenceSession" >>
IsOrderedStage(c) == \E i \in DOMAIN StageOrder : StageOrder[i] = c.stage
OrderedCalls == SelectSeq(calls, IsOrderedStage)

\* C1: in every call of check_onnx_model the stages file-existence test,
\* onnx.load, check_model, introspection, InferenceSession run in that order,
\* and a stage runs only if every earlier stage succeeded (no load for a
\* missing file, no session after a failed load or check).
C1_StagesInOrder ==
    /\ Len(OrderedCalls) <= Len(StageOrder)
    /\ \A i \in DOMAIN OrderedCalls :
          /\ OrderedCalls[i].stage = StageOrder[i]
          /\ i < Len(OrderedCalls) => OrderedCalls[i].ok

C1_Witness ==
    /\ Len(called) = Len(model_files)
    /\ Ran("InferenceSession", TRUE)

\* the library calls made inside the try blocks
LibraryStages ==
    {"load", "check_model", "introspect", "InferenceSession", "get_inputs",
     "get_outputs"}
FailureMessages == {"verify_failed", "rt_error"}

\* C2: an exception raised by a library call of check_onnx_model never
\* leaves the function: the call that raised is the last one made, a failure
\* message is the last line printed, the function returns False, and no
\* stage is run a second time.
C2_ExceptionsCaught ==
    /\ pc # "crashed"
    /\ \A i \in DOMAIN calls :
          (calls[i].stage \in LibraryStages /\ ~calls[i].ok) =>
             /\ i = Len(calls)
             /\ pc = "check_return"
             /\ retval = FALSE
             /\ section[Len(section)].msg \in FailureMessages
    /\ \A i, j \in DOMAIN calls : calls[i].stage = calls[j].stage => i = j

C2_Witness ==
    /\ pc = "check_return"
    /\ Ran("InferenceSession", FALSE)
    /\ Ran("check_model", TRUE)

\* C3: main calls check_onnx_model once per file name, in list order, one
\* call at a time, and with the directory present it ends having called all
\* five, whatever the earlier calls returned.
C3_EachModelOnceInOrder ==
    /\ Len(called) <= Len(model_files)
    /\ called = SubSeq(model_files, 1, Len(called))
    /\ Len(called) = Len(returned) + (IF InCheck THEN 1 ELSE 0)
    /\ (pc = "done" /\ models_dir_exists) => called = model_files

C3_Witness ==
    /\ pc = "done"
    /\ models_dir_exists
    /\ Len(returned) = Len(model_files)
    /\ ~returned[1]
    /\ ~returned[2]
    /\ returned[Len(model_files)]

\* the condition the specification gives for a positive verdict
ClaimedCompatible(info) ==
    /\ info.name = "images"
    /\ Len(info.shape) = 4
    /\ \A i \in DOMAIN info.shape :
          info.shape[i].kind = "int" /\ info.shape[i].val > 0

SessionReady ==
    /\ Ran("exists", TRUE)
    /\ Ran("load", TRUE)
    /\ Ran("check_model", TRUE)
    /\ Ran("InferenceSession", TRUE)
    /\ Ran("get_inputs", TRUE)
    /\ Ran("get_outputs", TRUE)

\* C4: for a model whose session was created, the verdict printed is the
\* positive one exactly when the first input is named "images", has rank 4
\* and only positive numeric dimensions, and the negative one in every other
\* case.
C4_VerdictMatchesCondition ==
    (pc = "check_return" /\ SessionReady) =>
       IF ClaimedCompatible(input_info[1])
       THEN Printed(section, "compatible") /\ ~Printed(section, "incompatible")
       ELSE Printed(section, "incompatible") /\ ~Printed(section, "compatible")

\* C5: the program terminates, after at most five calls of check_onnx_model.
C5_Terminates ==
    /\ [](Len(called) <= Len(model_files))
    /\ <>(pc = "done")

C5_Witness ==
    /\ pc = "done"
    /\ Len(returned) = Len(model_files)
    /\ CountTrue(returned) = 2

\* C6: once the file exists, load and check succeeded and the session was
\* created with an input and an output, check_onnx_model returns True,
\* whatever the compatibility verdict.
C6_VerdictNeverChangesResult ==
    (pc = "check_return" /\ SessionReady) => retval = TRUE

\* C7: 0 <= valid_models <= total_models <= 5, total_models counts the calls
\* made and valid_models the calls that returned True; the summary is
\* printed with total_models = 5, and the warning block exactly when a call
\* returned False.
C7_CountersMatchCalls ==
    /\ 0 <= valid_models
    /\ valid_models <= total_models
    /\ total_models <= Len(model_files)
    /\ total_models = Len(called)
    /\ valid_models = CountTrue(returned)
    /\ Printed(out, "summary") =>
          /\ total_models = Len(model_files)
          /\ \E i \in DOMAIN out :
                out[i] = Line("summary",
                              << Len(model_files), CountTrue(returned) >>)
          /\ Printed(out, "warning") <=> (\E i \in DOMAIN returned : ~returned[i])
          /\ Printed(out, "warning") <=> valid_models < total_models

C7_Witness ==
    /\ pc = "done"
    /\ Printed(out, "warning")
    /\ valid_models = 3

\* C8: with the models directory missing, main prints the missing-directory
\* message and returns: no call of check_onnx_model, no summary, no warning,
\* and the counters are never created.
C8_MissingDirectoryReturns ==
    (~models_dir_exists /\ pc # "main_start") =>
       /\ pc = "done"
       /\ out = << Line("banner", << >>), Line("dir_missing", << >>) >>
       /\ called = << >>
       /\ returned = << >>
       /\ bound = {}
       /\ valid_models = 0
       /\ total_models = 0

C8_Witness ==
    /\ ~models_dir_exists
    /\ pc = "done"
    /\ Printed(out, "dir_missing")

=============================================================================
